---- MODULE Spec2Model ----
(***************************************************************************)
(* rcli: the text signing / authenticated-encryption engine                *)
(* (src/process/text.rs) with the collaborators it calls                   *)
(* (src/utils.rs get_reader, src/process/gen_pass.rs process_genpass,      *)
(* src/cli/text.rs CmdExecutor impls).                                     *)
(*                                                                         *)
(* Byte strings are sequences over 0..255; text (base64, file names,       *)
(* command-line arguments) is a sequence of ASCII codes.                   *)
(*                                                                         *)
(* The cryptographic primitives live in external crates (blake3,           *)
(* ed25519_dalek, chacha20poly1305).  They are modelled by small           *)
(* arithmetic functions that keep the primitives' contracts: the output    *)
(* lengths, determinism, dependence on every byte of key, nonce and        *)
(* message, and absence of collisions on the keys and messages the model   *)
(* draws.  What the repository's own code does with them (slicing,         *)
(* length checks, concatenation, splitting, base64, error propagation)     *)
(* is translated from the source.                                          *)
(***************************************************************************)
EXTENDS Integers, Sequences, FiniteSets, TLC

VARIABLES fs, sigout, encout, last, ncalls

vars == <<fs, sigout, encout, last, ncalls>>

----------------------------------------------------------------------------
(* Bounds of the model *)

\* RNG seeds an invocation may draw (OsRng / thread_rng outcomes)
MaxSeed == 2
\* invocations that leave output behind (generate, sign, encrypt) per run
MaxCalls == 3
\* longest key material offered to the loaders
MaxKeyLen == 33
\* longest signature offered to the verifiers
MaxSigLen == 65
\* the longest password asked of process_genpass, the key length apart
MaxLength == 6

----------------------------------------------------------------------------
(* Program constants *)

\* u8 modulus
BYTE == 256
\* Blake3 { key: [u8; 32] }, chacha20poly1305::Key, ed25519 key sizes
KEY_LEN == 32
\* ed25519_dalek::Signature::from_bytes(&[u8; 64])
SIG_LEN == 64
\* input.split_at(24): the XChaCha20 nonce
NONCE_LEN == 24
\* Poly1305 tag appended by cipher.encrypt
TAG_LEN == 16
\* blake3::OUT_LEN, the length of hash.as_bytes()
HASH_LEN == 32

UPPER == <<65, 66, 67, 68, 69, 70, 71, 72, 74, 75, 76, 77, 78, 79, 80, 81, 82,
           83, 84, 85, 86, 87, 88, 89, 90>>
LOWER == <<97, 98, 99, 100, 101, 102, 103, 104, 105, 106, 107, 109, 110, 111,
           112, 113, 114, 115, 116, 117, 118, 119, 120, 121, 122>>
NUMBER == <<49, 50, 51, 52, 53, 54, 55, 56, 57>>
SYMBOL == <<126, 33, 64, 35, 36, 37, 94, 38, 42, 95>>

\* "-"
DASH == <<45>>
\* "blake3.txt"
P_BLAKE3 == <<98, 108, 97, 107, 101, 51, 46, 116, 120, 116>>
\* "ed25519.sk"
P_SK == <<101, 100, 50, 53, 53, 49, 57, 46, 115, 107>>
\* "ed25519.pk"
P_PK == <<101, 100, 50, 53, 53, 49, 57, 46, 112, 107>>
\* "xchacha20poly1305_k.txt"
P_XK == <<120, 99, 104, 97, 99, 104, 97, 50, 48, 112, 111, 108, 121, 49, 51,
          48, 53, 95, 107, 46, 116, 120, 116>>
\* "xchacha20poly1305_t.txt"
P_XT == <<120, 99, 104, 97, 99, 104, 97, 50, 48, 112, 111, 108, 121, 49, 51,
          48, 53, 95, 116, 46, 116, 120, 116>>

\* messages read from the input stream: "", "hello", "hello!"
Msgs == { <<>>, <<104, 101, 108, 108, 111>>, <<104, 101, 108, 108, 111, 33>> }

Seeds == 1..MaxSeed

Formats == {"Blake3", "Ed25519"}

----------------------------------------------------------------------------
(* anyhow::Result<T>, plus the abnormal outcome (a panic unwinds main) *)

Ok(v) == [kind |-> "Ok", val |-> v, err |-> "none"]
Err(e) == [kind |-> "Err", val |-> <<>>, err |-> e]
Panic(why) == [kind |-> "Panic", val |-> <<>>, err |-> why]
IsOk(r) == r.kind = "Ok"

\* the error kinds of the specification, by the library error that carries them
FormatErrors == {"TryFromSliceError", "DecodeError", "SignatureError"}
AuthErrors == {"aead::Error"}
IoErrors == {"io::Error"}

----------------------------------------------------------------------------
(* Sequence helpers *)

\* a function over 1..n as a sequence value (a Vec<u8>)
Vec(f) == SubSeq(f, 1, Len(f))

Take(s, n) == SubSeq(s, 1, n)
Drop(s, n) == SubSeq(s, n + 1, Len(s))

RECURSIVE WSumFrom(_, _, _)
\* sum of s[j] * (odd weight depending on i and j), j = from..Len(s)
WSumFrom(s, i, from) ==
    IF from > Len(s) THEN 0
    ELSE (s[from] * (2 * (i + from) + 1) + WSumFrom(s, i, from + 1)) % BYTE
WSum(s, i) == WSumFrom(s, i, 1)

----------------------------------------------------------------------------
(* base64::engine::general_purpose::URL_SAFE_NO_PAD *)

B64_ALPHABET ==
    <<65, 66, 67, 68, 69, 70, 71, 72, 73, 74, 75, 76, 77, 78, 79, 80, 81, 82,
      83, 84, 85, 86, 87, 88, 89, 90, 97, 98, 99, 100, 101, 102, 103, 104, 105,
      106, 107, 108, 109, 110, 111, 112, 113, 114, 115, 116, 117, 118, 119,
      120, 121, 122, 48, 49, 50, 51, 52, 53, 54, 55, 56, 57, 45, 95>>

B64Char(v) == B64_ALPHABET[v + 1]

IsB64Char(c) ==
    \/ c \in 65..90 \/ c \in 97..122 \/ c \in 48..57 \/ c = 45 \/ c = 95

\* the 6-bit value of a character of the alphabet
B64Val(c) ==
    IF c \in 65..90 THEN c - 65
    ELSE IF c \in 97..122 THEN c - 71
    ELSE IF c \in 48..57 THEN c + 4
    ELSE IF c = 45 THEN 62 ELSE 63

\* b[i], or 0 past the end
ByteAt(b, i) == IF i <= Len(b) THEN b[i] ELSE 0

\* each group of 3 bytes gives 4 characters; a last group of 1 or 2 bytes
\* gives 2 or 3, and no padding is written
B64Encode(b) ==
    Vec([k \in 1..((4 * Len(b) + 2) \div 3) |->
        LET g == 3 * ((k - 1) \div 4)
            b1 == ByteAt(b, g + 1)
            b2 == ByteAt(b, g + 2)
            b3 == ByteAt(b, g + 3)
        IN  CASE (k - 1) % 4 = 0 -> B64Char(b1 \div 4)
              [] (k - 1) % 4 = 1 -> B64Char((b1 % 4) * 16 + b2 \div 16)
              [] (k - 1) % 4 = 2 -> B64Char((b2 % 16) * 4 + b3 \div 64)
              [] OTHER -> B64Char(b3 % 64)])

\* the 6-bit value of t[i], or 0 past the end
ValAt(t, i) == IF i <= Len(t) THEN B64Val(t[i]) ELSE 0

\* DecodeError for a character outside the alphabet (the padding "=" too),
\* for a length of 1 mod 4, and for a last character with bits left over
B64Decode(t) ==
    IF \E i \in 1..Len(t) : ~IsB64Char(t[i]) THEN Err("DecodeError")
    ELSE IF Len(t) % 4 = 1 THEN Err("DecodeError")
    ELSE IF Len(t) % 4 = 2 /\ B64Val(t[Len(t)]) % 16 # 0 THEN Err("DecodeError")
    ELSE IF Len(t) % 4 = 3 /\ B64Val(t[Len(t)]) % 4 # 0 THEN Err("DecodeError")
    ELSE Ok(Vec([k \in 1..((3 * Len(t)) \div 4) |->
                LET g == 4 * ((k - 1) \div 3)
                IN  CASE (k - 1) % 3 = 0 ->
                            ValAt(t, g + 1) * 4 + ValAt(t, g + 2) \div 16
                      [] (k - 1) % 3 = 1 ->
                            (ValAt(t, g + 2) % 16) * 16 + ValAt(t, g + 3) \div 4
                      [] OTHER ->
                            (ValAt(t, g + 3) % 4) * 64 + ValAt(t, g + 4)]))

----------------------------------------------------------------------------
(* The random sources: OsRng and rand::thread_rng.  An invocation draws    *)
(* one seed; the stream it yields is a function of the seed.               *)

\* the n bytes of the stream that follow the first off bytes
RandBytes(seed, off, n) ==
    Vec([i \in 1..n |-> (seed * 89 + (off + i) * (2 * seed + 11)) % BYTE])

\* rng.gen_range(0..n) / slice.choose: the k-th index drawn
Draw(seed, k, n) == ((seed * 7919 + k * 104729 + seed * k * 31) % 65521) % n

----------------------------------------------------------------------------
(* The external primitives, by contract *)

\* a message as it enters a digest or signature: its length and weighted sum
MsgMix(msg) == (Len(msg) * 17 + WSum(msg, 0)) % BYTE

\* blake3::keyed_hash(&key, &buf).as_bytes()
keyed_hash(key, buf) ==
    LET m == MsgMix(buf)
    IN  Vec([i \in 1..HASH_LEN |-> (31 * key[i] + m * (2 * i + 1) + i) % BYTE])

\* SigningKey::verifying_key().to_bytes()
verifying_key(sk) ==
    Vec([i \in 1..KEY_LEN |->
            IF i = KEY_LEN THEN (2 * sk[i] + 1) % BYTE
            ELSE (5 * sk[i] + 3 * i) % BYTE])

\* VerifyingKey::from_bytes succeeds: the bytes decompress to a curve point
IsPoint(pk) == pk[KEY_LEN] % 2 = 1

\* the one signature a public key accepts for a message
ed_signature(pk, buf) ==
    LET m == MsgMix(buf)
    IN  Vec([i \in 1..SIG_LEN |->
                IF i <= KEY_LEN THEN (29 * pk[i] + m * (2 * i + 1) + 3) % BYTE
                ELSE (7 * pk[i - KEY_LEN] + m * (2 * i + 1) + 1) % BYTE])

\* SigningKey::sign(&buf).to_vec()
ed_sign(sk, buf) == ed_signature(verifying_key(sk), buf)

\* VerifyingKey::verify(&buf, &sig).is_ok()
ed_verify(pk, buf, sig) == sig = ed_signature(pk, buf)

KeyStream(key, nonce, i) ==
    (3 * key[((i - 1) % KEY_LEN) + 1] + 5 * nonce[((i - 1) % NONCE_LEN) + 1] + i)
        % BYTE

\* the Poly1305 tag over the ciphertext under the key and nonce
MacTag(key, nonce, ct) ==
    LET n == WSum(nonce, 0)
        c == (WSum(ct, 1) + 17 * Len(ct)) % BYTE
    IN  Vec([j \in 1..TAG_LEN |->
                (key[j] + 3 * key[j + TAG_LEN] + (n + c) * (2 * j + 1) + j) % BYTE])

\* XChaCha20Poly1305::encrypt(&nonce, plaintext): ciphertext followed by tag
aead_encrypt(key, nonce, msg) ==
    LET ct == Vec([i \in 1..Len(msg) |->
                    (msg[i] + KeyStream(key, nonce, i)) % BYTE])
    IN  ct \o MacTag(key, nonce, ct)

\* XChaCha20Poly1305::decrypt(nonce, ciphertext): aead::Error unless the tag
\* is the one the key and nonce give the ciphertext
aead_decrypt(key, nonce, buf) ==
    IF Len(buf) < TAG_LEN THEN Err("aead::Error")
    ELSE LET ct == Take(buf, Len(buf) - TAG_LEN)
             tag == Drop(buf, Len(buf) - TAG_LEN)
         IN  IF tag # MacTag(key, nonce, ct) THEN Err("aead::Error")
             ELSE Ok(Vec([i \in 1..Len(ct) |->
                            (ct[i] + BYTE - KeyStream(key, nonce, i)) % BYTE]))

----------------------------------------------------------------------------
(* src/process/gen_pass.rs *)

Swap0(p, a, b) ==
    Vec([k \in 1..Len(p) |-> IF k = a + 1 THEN p[b + 1]
                             ELSE IF k = b + 1 THEN p[a + 1] ELSE p[k]])

RECURSIVE ShuffleRange(_, _, _, _)
\* the swaps of shuffle for i = hi, hi - 1, ..., lo, in that order
ShuffleRange(seed, p, hi, lo) ==
    IF hi < lo THEN p
    ELSE IF hi = lo THEN Swap0(p, hi, Draw(seed, 1000 + hi, hi + 1))
    ELSE LET mid == (hi + lo) \div 2
             q == ShuffleRange(seed, p, hi, mid + 1)
         IN  IF Len(q) = Len(p) THEN ShuffleRange(seed, q, mid, lo) ELSE q

\* SliceRandom::shuffle: for i in (1..len).rev() { swap(i, gen_index(i + 1)) }
ShuffleFrom(seed, p, i) ==
    IF i < 1 \/ Len(p) = 0 THEN p ELSE ShuffleRange(seed, p, i, 1)

\* checked: the build traps integer overflow (debug) or wraps (release)
process_genpass(seed, checked, length, upper, lower, number, symbol) ==
    LET chars == (IF upper THEN UPPER ELSE <<>>) \o (IF lower THEN LOWER ELSE <<>>)
                 \o (IF number THEN NUMBER ELSE <<>>)
                 \o (IF symbol THEN SYMBOL ELSE <<>>)
        first == (IF upper THEN <<UPPER[Draw(seed, 1, Len(UPPER)) + 1]>> ELSE <<>>)
                 \o (IF lower THEN <<LOWER[Draw(seed, 2, Len(LOWER)) + 1]>> ELSE <<>>)
                 \o (IF number THEN <<NUMBER[Draw(seed, 3, Len(NUMBER)) + 1]>> ELSE <<>>)
                 \o (IF symbol THEN <<SYMBOL[Draw(seed, 4, Len(SYMBOL)) + 1]>> ELSE <<>>)
        n == (length - Len(first) + BYTE) % BYTE
    IN  IF length < Len(first) /\ checked
        THEN Panic("attempt to subtract with overflow")
        ELSE IF n > 0 /\ Len(chars) = 0
        THEN Panic("cannot sample empty range")
        ELSE LET fill == Vec([t \in 1..n |->
                                  chars[Draw(seed, 4 + t, Len(chars)) + 1]])
                 password == first \o fill
             IN  Ok(ShuffleFrom(seed, password, Len(password) - 1))

----------------------------------------------------------------------------
(* src/utils.rs and the file system *)

is_file(path) == path \in DOMAIN fs

fs_read(path) == IF is_file(path) THEN Ok(fs[path]) ELSE Err("io::Error")

\* the bytes the reader yields: standard input for "-", else the file
get_reader(input, stdin) ==
    IF input = DASH THEN Ok(stdin) ELSE fs_read(input)

----------------------------------------------------------------------------
(* src/process/text.rs: key loading *)

\* <[u8; N]>::try_from(&[u8])
try_into(s, n) == IF Len(s) = n THEN Ok(s) ELSE Err("TryFromSliceError")

\* variant: the last 32 bytes are the key
Blake3_try_new_tail(key) ==
    IF Len(key) < KEY_LEN THEN Panic("range end index 32 out of range for slice")
    ELSE LET k == try_into(Drop(key, Len(key) - KEY_LEN), KEY_LEN)
         IN  IF ~IsOk(k) THEN k ELSE Ok([key |-> k.val])

Blake3_try_new(key) ==
    IF Len(key) < KEY_LEN THEN Panic("range end index 32 out of range for slice")
    ELSE LET k == try_into(Take(key, KEY_LEN), KEY_LEN)
         IN  IF ~IsOk(k) THEN k ELSE Ok([key |-> k.val])

Blake3_load(path) ==
    LET key == fs_read(path)
    IN  IF ~IsOk(key) THEN key ELSE Blake3_try_new(key.val)

Ed25519Signer_try_new(key) ==
    LET k == try_into(key, KEY_LEN)
    IN  IF ~IsOk(k) THEN k ELSE Ok([key |-> k.val])

Ed25519Signer_load(path) ==
    LET key == fs_read(path)
    IN  IF ~IsOk(key) THEN key ELSE Ed25519Signer_try_new(key.val)

Ed25519Verifier_try_new(key) ==
    LET k == try_into(key, KEY_LEN)
    IN  IF ~IsOk(k) THEN k
        ELSE IF ~IsPoint(k.val) THEN Err("SignatureError")
        ELSE Ok([key |-> k.val])

Ed25519Verifier_load(path) ==
    LET key == fs_read(path)
    IN  IF ~IsOk(key) THEN key ELSE Ed25519Verifier_try_new(key.val)

\* chacha20poly1305::Key::from_slice asserts the slice length
XChaCha20Poly1305Key_try_new(key) ==
    IF Len(key) # KEY_LEN THEN Panic("GenericArray::from_slice length mismatch")
    ELSE Ok([key |-> key])

\* variant: a string that decodes to 32 bytes is taken as the key itself,
\* and only other strings as paths
XChaCha20Poly1305Key_load_literal_first(path) ==
    LET lit == B64Decode(path)
        key == IF IsOk(lit) /\ Len(lit.val) = KEY_LEN THEN Ok(path)
               ELSE IF is_file(path) THEN fs_read(path) ELSE Ok(path)
    IN  IF ~IsOk(key) THEN key
        ELSE LET k == B64Decode(key.val)
             IN  IF ~IsOk(k) THEN k ELSE XChaCha20Poly1305Key_try_new(k.val)

XChaCha20Poly1305Key_load(path) ==
    LET key == IF is_file(path) THEN fs_read(path) ELSE Ok(path)
    IN  IF ~IsOk(key) THEN key
        ELSE LET k == B64Decode(key.val)
             IN  IF ~IsOk(k) THEN k ELSE XChaCha20Poly1305Key_try_new(k.val)

----------------------------------------------------------------------------
(* src/process/text.rs: the schemes *)

\* variant: the digest is taken without the key (blake3::hash)
Blake3_sign_unkeyed(self, buf) ==
    Ok(keyed_hash([i \in 1..KEY_LEN |-> 0], buf))

Blake3_sign(self, buf) == Ok(keyed_hash(self.key, buf))

\* variant: only the lengths are compared
Blake3_verify_len(self, buf, sig) ==
    Ok(Len(keyed_hash(self.key, buf)) = Len(sig))

\* variant: a longer signature is compared on its first 32 bytes
Blake3_verify_prefix(self, buf, sig) ==
    IF Len(sig) < HASH_LEN THEN Ok(FALSE)
    ELSE Ok(keyed_hash(self.key, buf) = Take(sig, HASH_LEN))

\* variant: the comparison is inverted
Blake3_verify_negated(self, buf, sig) ==
    Ok(keyed_hash(self.key, buf) # sig)

\* hash == sig compares the 32 digest bytes with the slice, lengths included
Blake3_verify(self, buf, sig) == Ok(keyed_hash(self.key, buf) = sig)

\* variant: the signature also depends on a count the program keeps
Ed25519Signer_sign_counted(self, buf) == Ok(ed_sign(self.key, buf \o <<ncalls>>))

Ed25519Signer_sign(self, buf) == Ok(ed_sign(self.key, buf))

\* variant: the verification failure is propagated with ? instead of is_ok()
Ed25519Verifier_verify_strict(self, buf, sig) ==
    LET s == try_into(sig, SIG_LEN)
    IN  IF ~IsOk(s) THEN s
        ELSE IF ed_verify(self.key, buf, s.val) THEN Ok(TRUE)
        ELSE Err("SignatureError")

Ed25519Verifier_verify(self, buf, sig) ==
    LET s == try_into(sig, SIG_LEN)
    IN  IF ~IsOk(s) THEN s ELSE Ok(ed_verify(self.key, buf, s.val))

Blake3_generate(seed) ==
    LET key == process_genpass(seed, TRUE, KEY_LEN, TRUE, TRUE, TRUE, TRUE)
    IN  IF ~IsOk(key) THEN key ELSE Ok(<< key.val >>)

\* variant: the public key is put first
Ed25519Signer_generate_swapped(seed) ==
    LET sk == RandBytes(seed, 0, KEY_LEN)
    IN  Ok(<< verifying_key(sk), sk >>)

Ed25519Signer_generate(seed) ==
    LET sk == RandBytes(seed, 0, KEY_LEN)
    IN  Ok(<< sk, verifying_key(sk) >>)

process_text_generate(format, seed) ==
    IF format = "Blake3" THEN Blake3_generate(seed)
    ELSE Ed25519Signer_generate(seed)

XChaCha20Poly1305Key_generate(seed) == Ok(<< RandBytes(seed, 0, KEY_LEN) >>)

\* variant: the nonce is a constant of the program
generate_nonce_fixed(seed, off) == Vec([i \in 1..NONCE_LEN |-> 0])

\* XChaCha20Poly1305::generate_nonce(&mut OsRng), after off bytes were drawn
generate_nonce(seed, off) == RandBytes(seed, off, NONCE_LEN)

\* variant: the nonce is not put in front of the ciphertext
XChaCha20Poly1305Key_encrypt_no_nonce(self, nonce, input) ==
    Ok(aead_encrypt(self.key, nonce, input))

XChaCha20Poly1305Key_encrypt(self, nonce, input) ==
    Ok(nonce \o aead_encrypt(self.key, nonce, input))

\* variant: the cut is made at the 12 bytes of a ChaCha20Poly1305 nonce
split_at_half(s, mid) == << Take(s, mid \div 2), Drop(s, mid \div 2) >>

\* <[u8]>::split_at(mid), for mid <= len
split_at(s, mid) == << Take(s, mid), Drop(s, mid) >>

\* variant: a failed authentication hands back the undecrypted bytes
XChaCha20Poly1305Key_decrypt_lenient(self, text) ==
    LET input == B64Decode(text)
    IN  IF ~IsOk(input) THEN input
        ELSE IF Len(input.val) < NONCE_LEN THEN Panic("split_at: mid > len")
        ELSE LET parts == split_at(input.val, NONCE_LEN)
                 plain == aead_decrypt(self.key, parts[1], parts[2])
             IN  IF IsOk(plain) THEN plain ELSE Ok(parts[2])

XChaCha20Poly1305Key_decrypt(self, text) ==
    LET input == B64Decode(text)
    IN  IF ~IsOk(input) THEN input
        ELSE IF Len(input.val) < NONCE_LEN THEN Panic("split_at: mid > len")
        ELSE LET parts == split_at(input.val, NONCE_LEN)
             IN  aead_decrypt(self.key, parts[1], parts[2])

----------------------------------------------------------------------------
(* src/process/text.rs: orchestration *)

process_text_sign(input, stdin, key, format) ==
    LET reader == get_reader(input, stdin)
        signer == IF format = "Blake3" THEN Blake3_load(key)
                  ELSE Ed25519Signer_load(key)
    IN  IF ~IsOk(reader) THEN reader
        ELSE IF ~IsOk(signer) THEN signer
        ELSE LET signed == IF format = "Blake3"
                           THEN Blake3_sign(signer.val, reader.val)
                           ELSE Ed25519Signer_sign(signer.val, reader.val)
             IN  Ok(B64Encode(signed.val))

process_text_verify(input, stdin, key, format, sig) ==
    LET reader == get_reader(input, stdin)
        s == B64Decode(sig)
        verifier == IF format = "Blake3" THEN Blake3_load(key)
                    ELSE Ed25519Verifier_load(key)
    IN  IF ~IsOk(reader) THEN reader
        ELSE IF ~IsOk(s) THEN s
        ELSE IF ~IsOk(verifier) THEN verifier
        ELSE IF format = "Blake3"
             THEN Blake3_verify(verifier.val, reader.val, s.val)
             ELSE Ed25519Verifier_verify(verifier.val, reader.val, s.val)

\* variant: only the empty key argument asks for a new key
KeyGiven_nonempty(key) == key # <<>>

\* key != "-" && !key.is_empty()
KeyGiven(key) == key # DASH /\ key # <<>>

\* the encryptor process_text_encrypt builds: loaded, or from a new key
Encryptor(key, seed) ==
    IF KeyGiven(key) THEN XChaCha20Poly1305Key_load(key)
    ELSE LET gen == XChaCha20Poly1305Key_generate(seed)
         IN  IF ~IsOk(gen) THEN gen
             ELSE XChaCha20Poly1305Key_try_new(gen.val[1])

\* the nonce the encrypt call of process_text_encrypt draws
EncryptNonce(key, seed) ==
    generate_nonce(seed, IF KeyGiven(key) THEN 0 ELSE KEY_LEN)

process_text_encrypt(input, stdin, key, seed) ==
    LET reader == get_reader(input, stdin)
        encryptor == Encryptor(key, seed)
    IN  IF ~IsOk(reader) THEN reader
        ELSE IF ~IsOk(encryptor) THEN encryptor
        ELSE LET encrypted == XChaCha20Poly1305Key_encrypt(
                                  encryptor.val, EncryptNonce(key, seed), reader.val)
             IN  IF ~IsOk(encrypted) THEN encrypted
                 ELSE Ok(<< encryptor.val.key, encrypted.val >>)

process_text_decrypt(input, stdin, key) ==
    LET reader == get_reader(input, stdin)
        decryptor == XChaCha20Poly1305Key_load(key)
    IN  IF ~IsOk(reader) THEN reader
        ELSE IF ~IsOk(decryptor) THEN decryptor
        ELSE XChaCha20Poly1305Key_decrypt(decryptor.val, reader.val)

----------------------------------------------------------------------------
(* State: the files on disk; the signature text the last successful sign   *)
(* printed, with the key file contents and message it was made from; the   *)
(* key and envelope text the last successful encrypt wrote to the output   *)
(* directory, with the key bytes and message they were made from (what it  *)
(* only prints is in its result); the invocation in progress               *)
(* with its arguments and result; and the number of invocations that left  *)
(* output behind.                                                          *)

Idle == [op |-> "idle", format |-> "none", key |-> <<>>, msg |-> <<>>,
         sig |-> <<>>, nonce |-> <<>>, res |-> Ok(<<>>)]

NoSig == [format |-> "none", key |-> <<>>, msg |-> <<>>, text |-> <<>>]

NoEnc == [key |-> <<>>, msg |-> <<>>, keytext |-> <<>>, text |-> <<>>]

\* fs::write(name, contents)
fs_write(files, name, contents) ==
    [p \in DOMAIN files \cup {name} |-> IF p = name THEN contents ELSE files[p]]

Init ==
    /\ fs = << >>
    /\ sigout = NoSig
    /\ encout = NoEnc
    /\ last = Idle
    /\ ncalls = 0

\* the key file each command is pointed at
SignKey(format) == IF format = "Blake3" THEN P_BLAKE3 ELSE P_SK
VerifyKey(format) == IF format = "Blake3" THEN P_BLAKE3 ELSE P_PK

\* one bit of one byte inverted
FlipBit(s, pos, bit) ==
    [s EXCEPT ![pos] = IF (s[pos] \div (2 ^ bit)) % 2 = 1
                       THEN s[pos] - 2 ^ bit ELSE s[pos] + 2 ^ bit]

\* s cut or zero-padded to n bytes
Resize(s, n) == Vec([i \in 1..n |-> IF i <= Len(s) THEN s[i] ELSE 0])

\* TextKeyGenerateOpts::execute
Generate(format, seed) ==
    /\ last = Idle
    /\ ncalls < MaxCalls
    /\ LET key == process_text_generate(format, seed)
       IN  /\ last' = [Idle EXCEPT !.op = "generate", !.format = format,
                                   !.res = key]
           /\ fs' = IF ~IsOk(key) THEN fs
                    ELSE IF format = "Blake3"
                    THEN fs_write(fs, P_BLAKE3, key.val[1])
                    ELSE fs_write(fs_write(fs, P_SK, key.val[1]), P_PK, key.val[2])
    /\ ncalls' = ncalls + 1
    /\ UNCHANGED <<sigout, encout>>

\* TextSignOpts::execute, reading the message from standard input
Sign(format, key, stdin) ==
    /\ last = Idle
    /\ ncalls < MaxCalls
    /\ LET sig == process_text_sign(DASH, stdin, key, format)
       IN  /\ last' = [Idle EXCEPT !.op = "sign", !.format = format,
                                   !.key = key, !.msg = stdin, !.res = sig]
           /\ sigout' = IF ~IsOk(sig) THEN sigout
                        ELSE [format |-> format, key |-> fs[key],
                              msg |-> stdin, text |-> sig.val]
    /\ ncalls' = ncalls + 1
    /\ UNCHANGED <<fs, encout>>

\* TextVerifyOpts::execute, reading the message from standard input
Verify(format, key, stdin, sig) ==
    /\ last = Idle
    /\ last' = [Idle EXCEPT !.op = "verify", !.format = format, !.key = key,
                            !.msg = stdin, !.sig = sig,
                            !.res = process_text_verify(DASH, stdin, key, format, sig)]
    /\ UNCHANGED <<fs, sigout, encout, ncalls>>

\* TextEncryptOpts::execute: the two blocks go, as base64 text, to the files
\* of the output directory, or to standard output when it is no directory
Encrypt(key, stdin, seed, todir) ==
    /\ last = Idle
    /\ ncalls < MaxCalls
    /\ LET encrypted == process_text_encrypt(DASH, stdin, key, seed)
       IN  /\ last' = [Idle EXCEPT !.op = "encrypt", !.key = key, !.msg = stdin,
                                   !.nonce = EncryptNonce(key, seed),
                                   !.res = encrypted]
           /\ fs' = IF IsOk(encrypted) /\ todir
                    THEN fs_write(fs_write(fs, P_XK, B64Encode(encrypted.val[1])),
                                  P_XT, B64Encode(encrypted.val[2]))
                    ELSE fs
           /\ encout' = IF ~(IsOk(encrypted) /\ todir) THEN encout
                        ELSE [key |-> encrypted.val[1], msg |-> stdin,
                              keytext |-> B64Encode(encrypted.val[1]),
                              text |-> B64Encode(encrypted.val[2])]
    /\ ncalls' = ncalls + 1
    /\ UNCHANGED sigout

\* the nonce decrypt hands to the cipher, when it gets that far
DecryptNonce(text) ==
    LET input == B64Decode(text)
    IN  IF IsOk(input) /\ Len(input.val) >= NONCE_LEN
        THEN split_at(input.val, NONCE_LEN)[1] ELSE <<>>

\* TextDecryptOpts::execute
Decrypt(input, stdin, key) ==
    /\ last = Idle
    /\ LET reader == get_reader(input, stdin)
           text == IF IsOk(reader) THEN reader.val ELSE <<>>
       IN  last' = [Idle EXCEPT !.op = "decrypt", !.key = key, !.msg = text,
                                !.nonce = DecryptNonce(text),
                                !.res = process_text_decrypt(input, stdin, key)]
    /\ UNCHANGED <<fs, sigout, encout, ncalls>>

\* the process ends: its key material and output are gone
Exit ==
    /\ last # Idle
    /\ last' = Idle
    /\ UNCHANGED <<fs, sigout, encout, ncalls>>

----------------------------------------------------------------------------
(* The arguments a caller supplies *)

\* signatures: the one last printed, and the same with a bit inverted
SigArgs ==
    IF sigout = NoSig THEN {}
    ELSE { sigout.text, B64Encode(FlipBit(B64Decode(sigout.text).val, 1, 0)) }

\* signatures of every length: the one last printed, cut or zero-padded,
\* with or without a bit inverted; and text that is not base64
SigSweep ==
    { <<42>> } \cup
    IF sigout = NoSig THEN {}
    ELSE LET s == B64Decode(sigout.text).val
         IN  { B64Encode(Resize(s, n)) : n \in 0..MaxSigLen }
             \cup { B64Encode(FlipBit(Resize(s, n), n, 7)) : n \in 1..MaxSigLen }

\* keys for decrypt: the key file, "-", and freshly generated keys as text
\* (the key encrypt printed is one of them)
DecryptKeys == {P_XK, DASH} \cup { B64Encode(RandBytes(s, 0, KEY_LEN)) : s \in Seeds }

\* keys for encrypt: generate ("-" or empty) or the key file
EncryptKeys == {DASH, <<>>, P_XK}

\* envelope text as it arrives damaged: the text encrypt put out cut to
\* any length, one of its characters replaced by "*", and "*" alone
BadTexts ==
    { <<42>> } \cup
    IF encout = NoEnc THEN {}
    ELSE { Take(encout.text, n) : n \in 0..(Len(encout.text) - 1) }
         \cup { [encout.text EXCEPT ![1] = 42] }

\* the envelope encrypt put out with any one bit inverted, as text
TamperedTexts ==
    IF encout = NoEnc THEN {}
    ELSE LET e == B64Decode(encout.text).val
         IN  { B64Encode(FlipBit(e, pos, bit)) : pos \in 1..Len(e), bit \in 0..7 }

\* envelope text on standard input: what encrypt put out
DecryptTexts == IF encout = NoEnc THEN {} ELSE {encout.text}

\* one invocation runs at a time: a step starts only when none is in progress
GenerateStep ==
    /\ last = Idle
    /\ \E format \in Formats, seed \in Seeds : Generate(format, seed)

SignStep ==
    /\ last = Idle
    /\ \E format \in Formats, m \in Msgs : Sign(format, SignKey(format), m)

VerifyStep ==
    /\ last = Idle
    /\ \E format \in Formats, m \in Msgs, sig \in SigArgs :
            Verify(format, VerifyKey(format), m, sig)

EncryptStep ==
    /\ last = Idle
    /\ \E key \in EncryptKeys, m \in Msgs, seed \in Seeds, todir \in BOOLEAN :
            Encrypt(key, m, seed, todir)

DecryptStep ==
    /\ last = Idle
    /\ \E key \in DecryptKeys, text \in DecryptTexts \cup {P_XT} :
            IF text = P_XT THEN Decrypt(P_XT, <<>>, key)
            ELSE Decrypt(DASH, text, key)

\* verify offered signatures of every length
VerifySweepStep ==
    /\ last = Idle
    /\ \E format \in Formats, m \in Msgs, sig \in SigSweep :
            Verify(format, VerifyKey(format), m, sig)

\* decrypt offered damaged envelope text, under the key encrypt put out
DecryptBadStep ==
    /\ last = Idle
    /\ \E text \in BadTexts : Decrypt(DASH, text, P_XK)

\* decrypt offered the envelope with one bit inverted
DecryptTamperedStep ==
    /\ last = Idle
    /\ \E text \in TamperedTexts : Decrypt(DASH, text, encout.keytext)

Next == GenerateStep \/ SignStep \/ VerifyStep \/ EncryptStep \/ DecryptStep \/ Exit

Spec == Init /\ [][Next]_vars

\* signing and verifying, with signatures of every length
NextVerify == GenerateStep \/ SignStep \/ VerifySweepStep \/ Exit

SpecVerify == Init /\ [][NextVerify]_vars

\* encrypting and decrypting, with damaged and tampered envelopes
NextTamper == EncryptStep \/ DecryptBadStep \/ DecryptTamperedStep \/ Exit

SpecTamper == Init /\ [][NextTamper]_vars

----------------------------------------------------------------------------
(* Key loading on its own: key material of every length, in the key files  *)
(* (as base64 text in the encryption key file) and handed to try_new.      *)

Schemes == {"Blake3", "Ed25519Signer", "Ed25519Verifier", "XChaCha20Poly1305"}

Materials == { RandBytes(s, 0, n) : s \in Seeds, n \in 0..MaxKeyLen }

KeyFile(scheme) ==
    CASE scheme = "Blake3" -> P_BLAKE3
      [] scheme = "Ed25519Signer" -> P_SK
      [] scheme = "Ed25519Verifier" -> P_PK
      [] OTHER -> P_XK

InitLoad ==
    /\ \E m \in Materials :
          fs = fs_write(fs_write(fs_write(fs_write(<< >>, P_BLAKE3, m), P_SK, m),
                                 P_PK, m), P_XK, B64Encode(m))
    /\ sigout = NoSig
    /\ encout = NoEnc
    /\ last = Idle
    /\ ncalls = 0

try_new(scheme, key) ==
    CASE scheme = "Blake3" -> Blake3_try_new(key)
      [] scheme = "Ed25519Signer" -> Ed25519Signer_try_new(key)
      [] scheme = "Ed25519Verifier" -> Ed25519Verifier_try_new(key)
      [] OTHER -> XChaCha20Poly1305Key_try_new(key)

load(scheme, path) ==
    CASE scheme = "Blake3" -> Blake3_load(path)
      [] scheme = "Ed25519Signer" -> Ed25519Signer_load(path)
      [] scheme = "Ed25519Verifier" -> Ed25519Verifier_load(path)
      [] OTHER -> XChaCha20Poly1305Key_load(path)

\* a call of <scheme>::try_new(key)
TryNew(scheme, key) ==
    /\ last = Idle
    /\ last' = [Idle EXCEPT !.op = "try_new", !.format = scheme, !.key = key,
                            !.res = try_new(scheme, key)]
    /\ UNCHANGED <<fs, sigout, encout, ncalls>>

\* a call of <scheme>::load(path)
Load(scheme, path) ==
    /\ last = Idle
    /\ last' = [Idle EXCEPT !.op = "load", !.format = scheme, !.key = path,
                            !.res = load(scheme, path)]
    /\ UNCHANGED <<fs, sigout, encout, ncalls>>

TryNewStep ==
    /\ last = Idle
    /\ \E scheme \in Schemes : TryNew(scheme, fs[P_BLAKE3])

\* from the scheme's key file; the encryption key also as literal text
LoadStep ==
    /\ last = Idle
    /\ \/ \E scheme \in Schemes : Load(scheme, KeyFile(scheme))
       \/ Load("XChaCha20Poly1305", B64Encode(fs[P_BLAKE3]))

NextLoad == TryNewStep \/ LoadStep \/ Exit

SpecLoad == InitLoad /\ [][NextLoad]_vars

----------------------------------------------------------------------------
(* Properties *)

\* the verify in progress was given the signature last printed, for the
\* message it was made from, under the scheme that made it
VerifiesLastSignature ==
    /\ last.op = "verify"
    /\ sigout # NoSig
    /\ last.format = sigout.format
    /\ last.sig = sigout.text
    /\ last.msg = sigout.msg

\* the key files now on disk are the ones the last signature was made under
SameSigningKey ==
    /\ SignKey(sigout.format) \in DOMAIN fs
    /\ VerifyKey(sigout.format) \in DOMAIN fs
    /\ fs[SignKey(sigout.format)] = sigout.key

\* key files are on disk, and the signing key is not the one the last
\* signature was made under
OtherSigningKey ==
    /\ SignKey(sigout.format) \in DOMAIN fs
    /\ VerifyKey(sigout.format) \in DOMAIN fs
    /\ fs[SignKey(sigout.format)] # sigout.key

\* C1: verifying a signature under the key it was made with, for the message
\* it was made from, returns Ok(true): keyed-hash with the one generated
\* key, Ed25519 with the generated secret key and its public key.
C1_SignVerifyRoundTrip ==
    (VerifiesLastSignature /\ SameSigningKey)
        => (last.res.kind = "Ok" /\ last.res.val = TRUE)

C1_Witness ==
    /\ VerifiesLastSignature
    /\ SameSigningKey
    /\ last.format = "Ed25519"
    /\ Len(last.msg) = 6
    /\ last.res.kind = "Ok"

\* the decrypt in progress was given the envelope text encrypt put out
DecryptsLastEnvelope ==
    /\ last.op = "decrypt"
    /\ encout # NoEnc
    /\ last.msg = encout.text

\* ... under the key encrypt put out, as text or as the key file
UnderLastKey ==
    \/ last.key = encout.keytext
    \/ last.key = P_XK /\ P_XK \in DOMAIN fs /\ fs[P_XK] = encout.keytext

\* C2: decrypting, under the key used, the base64 text of the envelope that
\* encrypt produced returns exactly the message encrypted.
C2_EncryptDecryptRoundTrip ==
    (DecryptsLastEnvelope /\ UnderLastKey)
        => (last.res.kind = "Ok" /\ last.res.val = encout.msg)

C2_Witness ==
    /\ DecryptsLastEnvelope
    /\ UnderLastKey
    /\ Len(encout.msg) = 6
    /\ last.res.kind = "Ok"

\* b is a with exactly one bit inverted
OneBitApart(a, b) ==
    /\ Len(a) = Len(b)
    /\ \E pos \in 1..Len(a) :
          /\ \A i \in 1..Len(a) : i # pos => a[i] = b[i]
          /\ \E bit \in 0..7 : b[pos] = FlipBit(a, pos, bit)[pos]

\* the decrypt in progress was given, under the key encrypt put out, the
\* envelope encrypt put out with one bit inverted
DecryptsTampered ==
    /\ last.op = "decrypt"
    /\ encout # NoEnc
    /\ UnderLastKey
    /\ IsOk(B64Decode(last.msg))
    /\ OneBitApart(B64Decode(encout.text).val, B64Decode(last.msg).val)

\* C3: an envelope with any one bit inverted (in the nonce, the ciphertext or
\* the tag) fails to decrypt, with the authentication error, and no plaintext
\* comes back.
C3_TamperDetection ==
    DecryptsTampered => (last.res.kind = "Err" /\ last.res.err \in AuthErrors)

\* a bit of the nonce was inverted
C3_Witness ==
    /\ DecryptsTampered
    /\ Take(B64Decode(encout.text).val, NONCE_LEN)
            # Take(B64Decode(last.msg).val, NONCE_LEN)
    /\ Len(encout.msg) = 6
    /\ last.res.kind = "Err"

\* the decrypt in progress was given a 32-byte key, as text, that is not the
\* key encrypt put out
UnderOtherKey ==
    /\ ~is_file(last.key)
    /\ IsOk(B64Decode(last.key))
    /\ Len(B64Decode(last.key).val) = KEY_LEN
    /\ B64Decode(last.key).val # encout.key

\* C4: under another key of the same scheme, verifying a signature returns
\* Ok(false) (keyed-hash and Ed25519), and decrypting an envelope returns the
\* authentication error.
C4_WrongKeyRejection ==
    /\ (VerifiesLastSignature /\ OtherSigningKey)
            => (last.res.kind = "Ok" /\ last.res.val = FALSE)
    /\ (DecryptsLastEnvelope /\ UnderOtherKey)
            => (last.res.kind = "Err" /\ last.res.err \in AuthErrors)

C4_Witness ==
    /\ VerifiesLastSignature
    /\ OtherSigningKey
    /\ last.format = "Ed25519"
    /\ last.res.kind = "Ok"

\* the key bytes the load or try_new in progress hands to the scheme
KeyMaterial ==
    IF last.op = "try_new" THEN last.key
    ELSE IF last.format # "XChaCha20Poly1305" THEN fs[last.key]
    ELSE B64Decode(IF is_file(last.key) THEN fs[last.key] ELSE last.key).val

\* C5: loading 0 to 31 bytes of key material for the keyed-hash scheme or
\* (after base64 decoding) the authenticated-encryption scheme returns a
\* format error as an Err value; it does not abort.
C5_ShortKeyFormatError ==
    (/\ last.op \in {"try_new", "load"}
     /\ last.format \in {"Blake3", "XChaCha20Poly1305"}
     /\ Len(KeyMaterial) < KEY_LEN)
        => (last.res.kind = "Err" /\ last.res.err \in FormatErrors)

\* 31 bytes of key material abort the load
C5_Witness ==
    /\ last.op \in {"try_new", "load"}
    /\ last.format \in {"Blake3", "XChaCha20Poly1305"}
    /\ Len(KeyMaterial) = KEY_LEN - 1
    /\ last.res.kind = "Panic"

\* the verify in progress got as far as the signature bytes
VerifyReached(format) ==
    /\ last.op = "verify"
    /\ last.format = format
    /\ VerifyKey(format) \in DOMAIN fs
    /\ IsOk(B64Decode(last.sig))

\* C6: Ed25519 verification of a signature that is not 64 bytes long is a
\* format error; of 64 bytes it is Ok(true) or Ok(false), and Ok(false)
\* unless it is the signature made for this message under this key.
C6_Ed25519ByLength ==
    VerifyReached("Ed25519") =>
        IF Len(B64Decode(last.sig).val) # SIG_LEN
        THEN last.res.kind = "Err" /\ last.res.err = "TryFromSliceError"
        ELSE /\ last.res.kind = "Ok"
             /\ last.res.val = (VerifiesLastSignature /\ SameSigningKey)

\* a 64-byte signature that does not verify
C6_Witness ==
    /\ VerifyReached("Ed25519")
    /\ sigout.format = "Ed25519"
    /\ last.msg = sigout.msg
    /\ last.sig # sigout.text
    /\ Len(B64Decode(last.sig).val) = SIG_LEN
    /\ last.res.kind = "Ok"

\* C7: keyed-hash verification returns Ok(true) exactly when the signature
\* is, byte for byte, the 32-byte keyed digest of the message under the key,
\* and Ok(false) for every other signature, of any length.
C7_Blake3ExactEquality ==
    VerifyReached("Blake3") =>
        /\ last.res.kind = "Ok"
        /\ last.res.val = (B64Decode(last.sig).val
                            = keyed_hash(Take(fs[P_BLAKE3], KEY_LEN), last.msg))

\* a signature of 33 bytes whose first 32 are the digest
C7_Witness ==
    /\ VerifyReached("Blake3")
    /\ Len(B64Decode(last.sig).val) = HASH_LEN + 1
    /\ Take(B64Decode(last.sig).val, HASH_LEN)
            = keyed_hash(Take(fs[P_BLAKE3], KEY_LEN), last.msg)
    /\ last.res.kind = "Ok"

\* the verify in progress was given the signature last printed, under the
\* other scheme
VerifiesOtherScheme ==
    /\ last.op = "verify"
    /\ sigout # NoSig
    /\ last.sig = sigout.text
    /\ last.format # sigout.format

\* C8: a signature made by one scheme never verifies under the other:
\* process_text_verify returns Ok(false) or an error.
C8_CrossSchemeNeverVerifies ==
    VerifiesOtherScheme => (last.res.kind = "Ok" => last.res.val = FALSE)

\* an Ed25519 signature, for its message, under the keyed-hash scheme
C8_Witness ==
    /\ VerifiesOtherScheme
    /\ last.format = "Blake3"
    /\ last.msg = sigout.msg
    /\ last.res.kind = "Ok"

\* the decrypt in progress loaded its key and decoded at least a nonce
DecryptReached ==
    /\ last.op = "decrypt"
    /\ IsOk(XChaCha20Poly1305Key_load(last.key))
    /\ IsOk(B64Decode(last.msg))
    /\ Len(B64Decode(last.msg).val) >= NONCE_LEN

\* C9: the envelope is the nonce drawn for the call followed by ciphertext
\* and tag, 24 + len(M) + 16 bytes and never under 40; decrypt takes the
\* first 24 decoded bytes as the nonce and the rest as ciphertext and tag.
C9_EnvelopeLayout ==
    /\ (last.op = "encrypt" /\ IsOk(last.res)) =>
            LET key == last.res.val[1]
                env == last.res.val[2]
            IN  /\ Take(env, NONCE_LEN) = last.nonce
                /\ Drop(env, NONCE_LEN) = aead_encrypt(key, last.nonce, last.msg)
                /\ Len(env) = NONCE_LEN + Len(last.msg) + TAG_LEN
                /\ Len(env) >= NONCE_LEN + TAG_LEN
    /\ DecryptReached =>
            LET key == XChaCha20Poly1305Key_load(last.key).val.key
                input == B64Decode(last.msg).val
            IN  /\ last.nonce = Take(input, NONCE_LEN)
                /\ last.res = aead_decrypt(key, Take(input, NONCE_LEN),
                                           Drop(input, NONCE_LEN))

\* the envelope of the empty message
C9_Witness ==
    /\ last.op = "encrypt"
    /\ IsOk(last.res)
    /\ last.msg = << >>
    /\ Len(last.res.val[2]) = NONCE_LEN + TAG_LEN

\* C10: decrypt of text that is not URL-safe unpadded base64, or that
\* decodes to fewer than 24 bytes, returns a format error as an Err value;
\* it does not abort.
C10_MalformedEnvelopeFormatError ==
    (/\ last.op = "decrypt"
     /\ IsOk(XChaCha20Poly1305Key_load(last.key))
     /\ \/ ~IsOk(B64Decode(last.msg))
        \/ Len(B64Decode(last.msg).val) < NONCE_LEN)
        => (last.res.kind = "Err" /\ last.res.err \in FormatErrors)

\* the empty input aborts decrypt
C10_Witness ==
    /\ last.op = "decrypt"
    /\ IsOk(XChaCha20Poly1305Key_load(last.key))
    /\ last.msg = << >>
    /\ last.res.kind = "Panic"

----------------------------------------------------------------------------
(* Encryption with the operating system's random source taken as ideal:    *)
(* no two invocations are handed the same stream.  The stream of an        *)
(* invocation is named by its position among the invocations.              *)

EncryptFreshStep ==
    last = Idle /\ \E key \in EncryptKeys, stdin \in Msgs, todir \in BOOLEAN :
        Encrypt(key, stdin, ncalls + 1, todir)

NextFresh == EncryptFreshStep \/ DecryptStep \/ Exit

SpecFresh == Init /\ [][NextFresh]_vars

\* the envelope and nonce of the encrypt that last wrote its output
LastEnvelope == B64Decode(encout.text).val
LastNonce == Take(LastEnvelope, NONCE_LEN)

\* C11: every encrypt draws a 24-byte nonce of its own: an encrypt that
\* follows one whose output was written uses another nonce and puts out
\* another envelope, whatever the keys and the messages of the two.
C11_NonceFreshness ==
    [][(last'.op = "encrypt" /\ IsOk(last'.res) /\ encout # NoEnc)
            => /\ Len(last'.nonce) = NONCE_LEN
               /\ Take(last'.res.val[2], NONCE_LEN) = last'.nonce
               /\ last'.nonce # LastNonce
               /\ last'.res.val[2] # LastEnvelope]_vars

\* the same message was encrypted again under the same key, and the output
\* of the first encryption is still the one on disk
C11_Witness ==
    /\ last.op = "encrypt"
    /\ IsOk(last.res)
    /\ encout # NoEnc
    /\ last.key = P_XK
    /\ last.res.val[1] = encout.key
    /\ last.msg = encout.msg
    /\ Len(last.msg) = 6
    /\ last.res.val[2] # LastEnvelope

----------------------------------------------------------------------------
(* Key generation on its own: the generate of each scheme, the generate    *)
(* command writing the key files, and the loaders reading them back.       *)

Generators == {"Blake3", "Ed25519Signer", "XChaCha20Poly1305"}

\* <scheme as KeyGenerator>::generate()
generate(scheme, seed) ==
    CASE scheme = "Blake3" -> Blake3_generate(seed)
      [] scheme = "Ed25519Signer" -> Ed25519Signer_generate(seed)
      [] OTHER -> XChaCha20Poly1305Key_generate(seed)

\* a call of <scheme>::generate()
KeyGenerate(scheme, seed) ==
    /\ last = Idle
    /\ last' = [Idle EXCEPT !.op = "generate", !.format = scheme,
                            !.res = generate(scheme, seed)]
    /\ UNCHANGED <<fs, sigout, encout, ncalls>>

KeyGenerateStep ==
    /\ last = Idle
    /\ \E scheme \in Generators, seed \in Seeds : KeyGenerate(scheme, seed)

\* the loaders of the signing schemes, each on its key file
LoadWrittenStep ==
    /\ last = Idle
    /\ \E scheme \in Schemes \ {"XChaCha20Poly1305"} : Load(scheme, KeyFile(scheme))

NextGenerate == GenerateStep \/ KeyGenerateStep \/ LoadWrittenStep \/ Exit

SpecGenerate == Init /\ [][NextGenerate]_vars

\* the blocks a generate returned
Blocks == last.res.val

\* C12: generate returns one block of 32 bytes for the keyed-hash scheme and
\* for the authenticated-encryption scheme, and for Ed25519 two blocks of 32
\* bytes, the secret key and then the public key derived from it; every
\* block is accepted by try_new of its scheme, and the key files the generate
\* command writes load.
C12_KeyGenerationShape ==
    /\ last.op = "generate" =>
        /\ IsOk(last.res)
        /\ \A i \in 1..Len(Blocks) : Len(Blocks[i]) = KEY_LEN
        /\ last.format = "Blake3" =>
                /\ Len(Blocks) = 1
                /\ Blake3_try_new(Blocks[1]) = Ok([key |-> Blocks[1]])
        /\ last.format = "XChaCha20Poly1305" =>
                /\ Len(Blocks) = 1
                /\ XChaCha20Poly1305Key_try_new(Blocks[1]) = Ok([key |-> Blocks[1]])
        /\ last.format \in {"Ed25519", "Ed25519Signer"} =>
                /\ Len(Blocks) = 2
                /\ Blocks[2] = verifying_key(Blocks[1])
                /\ Ed25519Signer_try_new(Blocks[1]) = Ok([key |-> Blocks[1]])
                /\ Ed25519Verifier_try_new(Blocks[2]) = Ok([key |-> Blocks[2]])
    /\ (last.op = "load" /\ is_file(last.key)) =>
        /\ IsOk(last.res)
        /\ last.res.val.key = fs[last.key]

\* the public key file the generate command wrote is loaded
C12_Witness ==
    /\ last.op = "load"
    /\ last.format = "Ed25519Verifier"
    /\ is_file(P_PK)
    /\ IsOk(last.res)
    /\ fs[P_PK] = verifying_key(fs[P_SK])

----------------------------------------------------------------------------
(* The two sources of the encryption key: a key file holding base64 text   *)
(* of key material of every length, and possibly a file whose name is      *)
(* itself the base64 text of a key.                                        *)

\* the base64 text of the key of a seed
KeyText(seed) == B64Encode(RandBytes(seed, 0, KEY_LEN))

InitSource ==
    /\ \E m \in Materials, named \in BOOLEAN :
          fs = IF named
               THEN fs_write(fs_write(<< >>, P_XK, B64Encode(m)),
                             KeyText(1), KeyText(MaxSeed))
               ELSE fs_write(<< >>, P_XK, B64Encode(m))
    /\ sigout = NoSig
    /\ encout = NoEnc
    /\ last = Idle
    /\ ncalls = 0

\* load given the key file, the text of the key file, or the text of a key
LoadSourceStep ==
    /\ last = Idle
    /\ \E path \in {P_XK, fs[P_XK]} \cup {KeyText(s) : s \in Seeds} :
            Load("XChaCha20Poly1305", path)

NextSource == LoadSourceStep \/ Exit

SpecSource == InitSource /\ [][NextSource]_vars

\* C13: XChaCha20Poly1305Key::load(s) takes the key text from the file s
\* when s is a file, also when s is itself the base64 text of a key, and
\* otherwise takes s as the key text; the text is decoded as URL-safe
\* unpadded base64 and the bytes are the key; so a file holding text T and
\* the string T load alike.
C13_DualKeySource ==
    (last.op = "load" /\ last.format = "XChaCha20Poly1305") =>
        LET text == IF last.key \in DOMAIN fs THEN fs[last.key] ELSE last.key
            k == B64Decode(text)
        IN  /\ ~IsOk(k) => last.res = k
            /\ (IsOk(k) /\ Len(k.val) = KEY_LEN) => last.res = Ok([key |-> k.val])
            /\ (IsOk(k) /\ Len(k.val) # KEY_LEN) => last.res.kind = "Panic"
            /\ (last.key \in DOMAIN fs /\ text \notin DOMAIN fs)
                    => last.res = XChaCha20Poly1305Key_load(text)

\* the string is the text of one key and names a file holding another
C13_Witness ==
    /\ last.op = "load"
    /\ last.key = KeyText(1)
    /\ last.key \in DOMAIN fs
    /\ IsOk(last.res)
    /\ last.res.val.key = B64Decode(fs[last.key]).val
    /\ last.res.val.key # B64Decode(last.key).val

----------------------------------------------------------------------------
\* the key bytes a generate of the encryption scheme can return
NewKeys == { RandBytes(s, 0, KEY_LEN) : s \in Seeds }

\* C14: process_text_encrypt generates a new key when the key argument is
\* "-" or empty and loads the key from the argument otherwise; on success it
\* returns the two blocks [key, envelope], the key being the 32 bytes the
\* envelope was made with, so that decrypting the envelope with it gives the
\* input back; on an error it returns no blocks.
C14_EncryptResult ==
    last.op = "encrypt" =>
        /\ last.key \in {DASH, << >>} => (IsOk(last.res) /\ last.res.val[1] \in NewKeys)
        /\ last.key \notin {DASH, << >>} =>
                LET loaded == XChaCha20Poly1305Key_load(last.key)
                IN  IF IsOk(loaded)
                    THEN IsOk(last.res) /\ last.res.val[1] = loaded.val.key
                    ELSE last.res = loaded
        /\ IsOk(last.res) =>
                LET key == last.res.val[1]
                    env == last.res.val[2]
                IN  /\ Len(last.res.val) = 2
                    /\ Len(key) = KEY_LEN
                    /\ env = last.nonce \o aead_encrypt(key, last.nonce, last.msg)
                    /\ XChaCha20Poly1305Key_decrypt([key |-> key], B64Encode(env))
                            = Ok(last.msg)
        /\ ~IsOk(last.res) => last.res.val = << >>

\* an empty key argument while a key file with another key is on disk
C14_Witness ==
    /\ last.op = "encrypt"
    /\ last.key = << >>
    /\ IsOk(last.res)
    /\ P_XK \in DOMAIN fs
    /\ last.res.val[1] # B64Decode(fs[P_XK]).val
    /\ Len(last.msg) = 6

----------------------------------------------------------------------------
\* what a process that has run nothing before returns for a sign of msg
\* with a key file of these bytes
FreshSign(format, key, msg) ==
    IF format = "Blake3" THEN Ok(B64Encode(keyed_hash(Take(key, KEY_LEN), msg)))
    ELSE Ok(B64Encode(ed_sign(key, msg)))

\* ... and for a verify of msg against the signature text sig
FreshVerify(format, key, msg, sig) ==
    LET s == B64Decode(sig)
    IN  IF ~IsOk(s) THEN s
        ELSE IF format = "Blake3"
        THEN Ok(s.val = keyed_hash(Take(key, KEY_LEN), msg))
        ELSE IF Len(s.val) # SIG_LEN THEN Err("TryFromSliceError")
        ELSE Ok(ed_verify(key, msg, s.val))

\* C15: whatever calls came before, a sign returns the signature, and a
\* verify the outcome (boolean or error), that a fresh process returns for
\* the same key, message and signature: a sign repeated for the message and
\* key of an earlier sign returns the same text; and sign and verify leave
\* the key files, and all else on disk, as they were.
C15_SignVerifyStateless ==
    [][/\ last'.op = "sign" =>
            /\ fs' = fs
            /\ IF last'.key \in DOMAIN fs
               THEN last'.res = FreshSign(last'.format, fs[last'.key], last'.msg)
               ELSE last'.res = Err("io::Error")
            /\ (/\ sigout # NoSig
                /\ last'.format = sigout.format
                /\ last'.msg = sigout.msg
                /\ last'.key \in DOMAIN fs
                /\ fs[last'.key] = sigout.key) => last'.res = Ok(sigout.text)
       /\ last'.op = "verify" =>
            /\ fs' = fs /\ sigout' = sigout /\ encout' = encout
            /\ IF last'.key \in DOMAIN fs \/ ~IsOk(B64Decode(last'.sig))
               THEN last'.res = FreshVerify(last'.format, fs[VerifyKey(last'.format)],
                                            last'.msg, last'.sig)
               ELSE last'.res = Err("io::Error")]_vars

\* a sign that came after a generate and a further call
C15_Witness ==
    /\ last.op = "sign"
    /\ last.format = "Ed25519"
    /\ IsOk(last.res)
    /\ ncalls = MaxCalls
    /\ encout = NoEnc
    /\ sigout.text = last.res.val

----------------------------------------------------------------------------
(* Keyed-hash keys of 32 bytes and more: two key files, each holding a     *)
(* key of 32 to MaxKeyLen bytes, and sign and verify pointed at either.    *)

LongKeys ==
    { RandBytes(s, 0, n) : s \in Seeds, n \in KEY_LEN..MaxKeyLen }
    \cup { FlipBit(RandBytes(s, 0, MaxKeyLen), MaxKeyLen, 0) : s \in Seeds }

LongKeyFiles == {P_BLAKE3, P_SK}

InitLong ==
    /\ \E a \in LongKeys, b \in LongKeys :
          fs = fs_write(fs_write(<< >>, P_BLAKE3, a), P_SK, b)
    /\ sigout = NoSig
    /\ encout = NoEnc
    /\ last = Idle
    /\ ncalls = 0

SignLongStep ==
    /\ last = Idle
    /\ \E key \in LongKeyFiles, m \in Msgs : Sign("Blake3", key, m)

VerifyLongStep ==
    /\ last = Idle
    /\ \E key \in LongKeyFiles, m \in Msgs, sig \in SigArgs :
            Verify("Blake3", key, m, sig)

TryNewLongStep ==
    /\ last = Idle
    /\ \E key \in LongKeyFiles : TryNew("Blake3", fs[key])

NextLong == SignLongStep \/ VerifyLongStep \/ TryNewLongStep \/ Exit

SpecLong == InitLong /\ [][NextLong]_vars

\* C16: Blake3::try_new, and so load, given more than 32 bytes succeeds
\* with the first 32 as the key; signatures depend on the first 32 bytes
\* only, and a signature verifies under a key exactly when the first 32
\* bytes of that key are those of the key it was made with.
C16_LongKeyTruncated ==
    /\ (last.op = "try_new" /\ last.format = "Blake3" /\ Len(last.key) >= KEY_LEN)
            => last.res = Ok([key |-> Take(last.key, KEY_LEN)])
    /\ (last.op = "sign" /\ last.format = "Blake3" /\ last.key \in DOMAIN fs
            /\ Len(fs[last.key]) >= KEY_LEN)
            => last.res = Ok(B64Encode(keyed_hash(Take(fs[last.key], KEY_LEN),
                                                  last.msg)))
    /\ (VerifiesLastSignature /\ last.format = "Blake3" /\ last.key \in DOMAIN fs
            /\ Len(fs[last.key]) >= KEY_LEN)
            => /\ last.res.kind = "Ok"
               /\ last.res.val = (Take(fs[last.key], KEY_LEN)
                                    = Take(sigout.key, KEY_LEN))

\* a signature made with one key verifies under a longer one
C16_Witness ==
    /\ VerifiesLastSignature
    /\ last.format = "Blake3"
    /\ Len(fs[last.key]) > Len(sigout.key)
    /\ last.res.kind = "Ok"
    /\ last.res.val = TRUE

----------------------------------------------------------------------------
(* process_genpass on its own: every combination of the class flags, the   *)
(* lengths 0..MaxLength and 32, in a build that traps integer overflow     *)
(* (debug) and in one that wraps (release).                                *)

Lengths == 0..MaxLength \cup {KEY_LEN}

Flag(b) == IF b THEN 1 ELSE 0

\* a call of process_genpass(length, upper, lower, number, symbol)
Genpass(seed, checked, length, upper, lower, number, symbol) ==
    /\ last = Idle
    /\ last' = [Idle EXCEPT
                  !.op = "genpass",
                  !.format = IF checked THEN "debug" ELSE "release",
                  !.key = << length, Flag(upper), Flag(lower), Flag(number),
                             Flag(symbol) >>,
                  !.res = process_genpass(seed, checked, length,
                                          upper, lower, number, symbol)]
    /\ UNCHANGED <<fs, sigout, encout, ncalls>>

GenpassStep ==
    /\ last = Idle
    /\ \E seed \in Seeds, checked \in BOOLEAN, length \in Lengths,
          upper \in BOOLEAN, lower \in BOOLEAN, number \in BOOLEAN,
          symbol \in BOOLEAN :
            Genpass(seed, checked, length, upper, lower, number, symbol)

NextGenpass == GenpassStep \/ Exit

SpecGenpass == Init /\ [][NextGenpass]_vars

\* the four classes, in the order of the flags
Classes == << UPPER, LOWER, NUMBER, SYMBOL >>

\* the characters of class c
ClassChars(c) == { Classes[c][i] : i \in 1..Len(Classes[c]) }

\* class c was asked for in the call in progress
ClassOn(c) == last.key[c + 1] = 1

\* C17: for every length and every combination of the class flags,
\* process_genpass returns a password of exactly the length asked for, of
\* characters of the enabled classes only, with at least one of each
\* enabled class; it neither underflows nor draws from an empty pool.
C17_GenpassLength ==
    last.op = "genpass" =>
        /\ IsOk(last.res)
        /\ Len(last.res.val) = last.key[1]
        /\ \A i \in 1..Len(last.res.val) :
                \E c \in 1..4 : ClassOn(c) /\ last.res.val[i] \in ClassChars(c)
        /\ \A c \in 1..4 : ClassOn(c) =>
                \E i \in 1..Len(last.res.val) : last.res.val[i] \in ClassChars(c)

\* a length under the number of enabled classes aborts the debug build
C17_Witness ==
    /\ last.op = "genpass"
    /\ last.format = "debug"
    /\ last.key = << 3, 1, 1, 1, 1 >>
    /\ last.res.kind = "Panic"

====
